---------------------------- MODULE Spec2Model ----------------------------
(***************************************************************************)
(* Model of src/app.py: one run of the toll-rate script.                   *)
(*   load_data -> tabs/Refresh -> process_image (grayscale, invert,        *)
(*   threshold, resize, OCR) -> closure branch | price parsing -> debug    *)
(*                                                                         *)
(* Text is a sequence of one-character strings.  Money amounts are held in *)
(* hundredths of a dollar (a float that came from a two-decimal literal),   *)
(* distances in tenths of a mile.                                          *)
(***************************************************************************)
EXTENDS Integers, Sequences, FiniteSets, TLC

\* Longest recognized text, counted in tokens of OcrTokens.
MaxTokens == 3

---------------------------------------------------------------------------
(* Configuration                                                           *)

\* SIGN_ORDER, top to bottom; dist in tenths of a mile (6.0, 12.0, 16.5).
SIGN_ORDER ==
  << [name |-> "Roswell Rd",    dist |-> 60],
     [name |-> "Big Shanty",    dist |-> 120],
     [name |-> "Hickory Grove", dist |-> 165] >>

\* point(lambda x: 0 if x < 90 else 255, '1')
ThresholdCutoff == 90

\* bw.resize((width * 2, height * 2), ...)
ResizeFactor == 2

\* if val > 15.0, in hundredths
SanityLimit == 1500

\* if len(str_val) >= 4
MinStripLen == 4

---------------------------------------------------------------------------
(* Characters and strings                                                  *)

DigitChars == <<"0", "1", "2", "3", "4", "5", "6", "7", "8", "9">>

Digits == {DigitChars[i] : i \in 1..10}

\* \d of the regular expression
IsDigit(c) == c \in Digits

\* \s of the regular expression
IsSpace(c) == c \in {" ", "\n"}

DigitVal(c) == (CHOOSE i \in 1..10 : DigitChars[i] = c) - 1

RECURSIVE DigitsVal(_)
\* int() of a run of digits; the empty run counts 0
DigitsVal(s) ==
  IF s = <<>> THEN 0
  ELSE DigitsVal(SubSeq(s, 1, Len(s) - 1)) * 10 + DigitVal(s[Len(s)])

RECURSIVE NatDigits(_)
\* the decimal digits of a natural number, no leading zeros
NatDigits(n) ==
  IF n < 10 THEN <<DigitChars[n + 1]>>
  ELSE NatDigits(n \div 10) \o <<DigitChars[(n % 10) + 1]>>

\* str.upper() on one character of the model's alphabet
UpperChar(c) ==
  CASE c = "c" -> "C"
    [] c = "l" -> "L"
    [] c = "o" -> "O"
    [] c = "s" -> "S"
    [] c = "e" -> "E"
    [] c = "d" -> "D"
    [] OTHER   -> c

\* raw_text.upper()
Upper(text) == [i \in 1..Len(text) |-> UpperChar(text[i])]

\* pat in text
Contains(text, pat) ==
  \E i \in 1..(Len(text) - Len(pat) + 1) : SubSeq(text, i, i + Len(pat) - 1) = pat

\* text.replace(a, b) for single characters a, b
Replace(text, a, b) == [i \in 1..Len(text) |-> IF text[i] = a THEN b ELSE text[i]]

ClosedMarker == <<"C", "L", "O", "S", "E", "D">>

IsClosedCaseSensitive(text) == Contains(text, ClosedMarker)

\* "CLOSED" in raw_text.upper()
IsClosed(text) == Contains(Upper(text), ClosedMarker)

\* raw_text.replace("O","0").replace("o","0").replace("S","$").replace("s","$")
CleanText(text) ==
  Replace(Replace(Replace(Replace(text, "O", "0"), "o", "0"), "S", "$"), "s", "$")

---------------------------------------------------------------------------
(* price_pattern = re.compile(r'\$?\s?(\d+\.\d{2})') and findall           *)

RECURSIVE DigitRunEnd(_, _)
\* first position at or after p that holds no digit (Len + 1 at the end):
\* where a greedy \d+ started at p stops
DigitRunEnd(t, p) ==
  IF p <= Len(t) /\ IsDigit(t[p]) THEN DigitRunEnd(t, p + 1) ELSE p

\* The pattern with the integer part limited to one or two digits,
\* \$?\s?(\d{1,2}\.\d{2}).
MatchAtTwoIntDigits(t, p) ==
  LET p1 == IF p <= Len(t) /\ t[p] = "$" THEN p + 1 ELSE p
      p2 == IF p1 <= Len(t) /\ IsSpace(t[p1]) THEN p1 + 1 ELSE p1
      e  == DigitRunEnd(t, p2)
  IN  IF /\ e > p2
         /\ e - p2 <= 2
         /\ e + 2 <= Len(t)
         /\ t[e] = "."
         /\ IsDigit(t[e + 1])
         /\ IsDigit(t[e + 2])
      THEN [ok |-> TRUE, group |-> SubSeq(t, p2, e + 2), next |-> e + 3]
      ELSE [ok |-> FALSE, group |-> <<>>, next |-> p + 1]

\* One match attempt of the pattern anchored at position p.  Backtracking
\* finds nothing the greedy attempt misses: "$" and the whitespace are not
\* digits, so giving either back leaves a character \d+ cannot start on, and
\* a shorter \d+ is followed by a digit, never by the ".".
\* group is the captured (\d+\.\d{2}); next is where the scan resumes.
MatchAt(t, p) ==
  LET p1 == IF p <= Len(t) /\ t[p] = "$" THEN p + 1 ELSE p
      p2 == IF p1 <= Len(t) /\ IsSpace(t[p1]) THEN p1 + 1 ELSE p1
      e  == DigitRunEnd(t, p2)
  IN  IF /\ e > p2
         /\ e + 2 <= Len(t)
         /\ t[e] = "."
         /\ IsDigit(t[e + 1])
         /\ IsDigit(t[e + 2])
      THEN [ok |-> TRUE, group |-> SubSeq(t, p2, e + 2), next |-> e + 3]
      ELSE [ok |-> FALSE, group |-> <<>>, next |-> p + 1]

RECURSIVE ScanFrom(_, _)
\* findall from position p: leftmost matches, left to right, not overlapping
ScanFrom(t, p) ==
  IF p > Len(t) THEN <<>>
  ELSE LET m == MatchAt(t, p)
       IN  IF m.ok THEN <<m.group>> \o ScanFrom(t, m.next)
           ELSE ScanFrom(t, m.next)

\* price_pattern.findall(clean_text)
FindAll(t) == ScanFrom(t, 1)

---------------------------------------------------------------------------
(* float(), str() and the format specs                                     *)

\* float(s) for s made of digits and at most one "."; anything else raises
\* ValueError (ok = FALSE).  The result is in hundredths, so s may carry at
\* most two fractional digits: the pattern captures exactly two and str()
\* of such a value prints one or two.
ParseFloat(s) ==
  LET dots == {i \in 1..Len(s) : s[i] = "."}
      d    == IF dots = {} THEN Len(s) + 1 ELSE CHOOSE i \in dots : TRUE
      int  == SubSeq(s, 1, d - 1)
      frac == SubSeq(s, d + 1, Len(s))
  IN  IF /\ \A i \in 1..Len(s) : IsDigit(s[i]) \/ s[i] = "."
         /\ Cardinality(dots) <= 1
         /\ Len(int) + Len(frac) >= 1
         /\ Len(frac) <= 2
      THEN [ok |-> TRUE,
            val |-> DigitsVal(int) * 100
                      + (IF Len(frac) = 1 THEN DigitsVal(frac) * 10
                         ELSE DigitsVal(frac))]
      ELSE [ok |-> FALSE, val |-> 0]

\* str(val): the shortest decimal that reads back as val, always with a
\* fractional part ("50.5", "20.0", "99.99")
Str(val) ==
  LET f == val % 100
  IN  NatDigits(val \div 100) \o <<".">>
        \o (IF f % 10 = 0 THEN <<DigitChars[(f \div 10) + 1]>>
            ELSE <<DigitChars[(f \div 10) + 1], DigitChars[(f % 10) + 1]>>)

\* f"${x:.2f}" for x already a whole number of hundredths
FormatMoney(x) ==
  <<"$">> \o NatDigits(x \div 100) \o <<".">>
    \o <<DigitChars[((x % 100) \div 10) + 1], DigitChars[(x % 10) + 1]>>

---------------------------------------------------------------------------
(* The mapping loop                                                        *)

ExceedsSanityInclusive(val) == val >= SanityLimit

\* if val > 15.0
ExceedsSanity(val) == val > SanityLimit

CorrectNoStrip(val) == val

\* The sanity logic: above the limit, re-read str(val) without its first
\* character; a ValueError of that float() is swallowed and val is kept.
Correct(val) ==
  IF ExceedsSanity(val)
  THEN LET str_val == Str(val)
       IN  IF Len(str_val) >= MinStripLen
           THEN LET r == ParseFloat(Tail(str_val))
                IN  IF r.ok THEN r.val ELSE val
           ELSE val
  ELSE val

DestForFirst(i) == SIGN_ORDER[1]

\* dest = SIGN_ORDER[i], i counted from 1 here
DestFor(i) == SIGN_ORDER[i]

PerMileTruncated(val, dist, up) == (val * 10) \div dist

\* per_mile = val / dest['dist'] as f"{per_mile:.2f}" prints it, in
\* hundredths: the quotient rounded to the nearest hundredth.  On an exact
\* tie the printed digit follows the binary quotient, which lies a rounding
\* error above or below the tie; up says which.
PerMile(val, dist, up) ==
  LET q == (val * 10) \div dist
      r == (val * 10) % dist
  IN  IF 2 * r > dist \/ (2 * r = dist /\ up) THEN q + 1 ELSE q

RECURSIVE BuildData(_, _, _)
\* for i, price_str in enumerate(matches): ... data.append({...});
\* i is the 1-based index of the next match to visit
BuildData(matches, i, ups) ==
  IF i > Len(matches) THEN <<>>
  ELSE IF i <= Len(SIGN_ORDER)
       THEN LET r == ParseFloat(matches[i])
            IN  IF r.ok
                THEN LET val      == Correct(r.val)
                         dest     == DestFor(i)
                         per_mile == PerMile(val, dest.dist, ups[i])
                     IN  << [Destination |-> dest.name,
                             Price       |-> FormatMoney(val),
                             PerMile     |-> FormatMoney(per_mile)] >>
                           \o BuildData(matches, i + 1, ups)
                ELSE BuildData(matches, i + 1, ups)
       ELSE BuildData(matches, i + 1, ups)

---------------------------------------------------------------------------
(* Images: mode, size (width, height) and the pixel at the origin          *)

\* a name that holds no image (load_data's None, a local not yet assigned)
NoImage == [mode |-> "None", size |-> <<0, 0>>, px |-> <<>>]

\* img.convert('L'): ITU-R 601-2 luma of an RGB pixel, as the imaging
\* library computes it in 16-bit fixed point; an 'L' image is copied
ConvertL(im) ==
  IF im.mode = "RGB"
  THEN [mode |-> "L", size |-> im.size,
        px |-> << (im.px[1] * 19595 + im.px[2] * 38470 + im.px[3] * 7471 + 32768)
                    \div 65536 >>]
  ELSE [mode |-> "L", size |-> im.size, px |-> im.px]

\* ImageOps.invert(gray)
InvertImage(im) == [mode |-> im.mode, size |-> im.size, px |-> <<255 - im.px[1]>>]

\* inverted.point(lambda x: 0 if x < 90 else 255, '1')
Point(im) ==
  [mode |-> "1", size |-> im.size,
   px |-> <<IF im.px[1] < ThresholdCutoff THEN 0 ELSE 255>>]

ResizeWidthOnly(im) ==
  [mode |-> im.mode, size |-> <<im.size[1] * ResizeFactor, im.size[2]>>, px |-> im.px]

\* bw.resize((width * 2, height * 2), resample=LANCZOS); the origin pixel of
\* the result is taken from the origin pixel of the source
Resize(im) ==
  [mode |-> im.mode,
   size |-> <<im.size[1] * ResizeFactor, im.size[2] * ResizeFactor>>,
   px |-> im.px]

---------------------------------------------------------------------------
(* Inputs from outside the program                                         *)

\* what Image.open can return for the camera frame
Frames ==
  { [mode |-> "RGB", size |-> <<4, 3>>, px |-> <<255, 160, 0>>],
    [mode |-> "L",   size |-> <<3, 2>>, px |-> <<165>>],
    [mode |-> "L",   size |-> <<3, 2>>, px |-> <<166>>] }

\* what makes load_data's try block raise: requests.get (connection,
\* timeout), raise_for_status, Image.open
LoadCauses == {"ConnectionError", "Timeout", "HTTPError", "UnidentifiedImageError"}

\* pieces of text the OCR engine can return
OcrTokens ==
  { <<"$", "0", ".", "5", "0">>,
    <<"$", "1", ".", "1", "0">>,
    <<".", "7", "5">>,
    <<"S", "1", ".", "6", "O">>,
    <<"5", "0", ".", "5", "0">>,
    <<"9", "9", "9", ".", "9", "9">>,
    <<"1", "6", ".", "5", "0">>,
    <<"1", "5", ".", "0", "0", " ", "1", "9", ".", "9", "9">>,
    <<"1", "2", "3", ".", "4", "5">>,
    <<"1", ".", "2", "3", "4">>,
    <<"C", "L", "O", "S", "E", "D">>,
    <<"c", "L", "o", "S", "e", "D">> }

\* what the engine puts between two pieces: nothing, or a line break
Separators == {<<>>, <<"\n">>}

RECURSIVE Join(_, _)
\* sep.join(ts)
Join(ts, sep) ==
  IF ts = <<>> THEN <<>>
  ELSE IF Len(ts) = 1 THEN Head(ts)
  ELSE Head(ts) \o sep \o Join(Tail(ts), sep)

\* every text of at most MaxTokens pieces
OcrTexts ==
  {Join(ts, sep) : ts \in UNION {[1..n -> OcrTokens] : n \in 0..MaxTokens},
                   sep \in Separators}

---------------------------------------------------------------------------
(* State                                                                   *)

VARIABLES
  pc,             \* where the script is
  fetches,        \* requests.get calls made by this run
  img,            \* load_data's result
  gray, inverted, bw, resized,   \* process_image's locals
  stages,         \* the steps of process_image executed by this run, in order
  raw_text, processed_img,       \* process_image's results
  clean_text, matches, data,     \* the else branch's variables
  ui,             \* what the run has written to the page, in order
  debug           \* tab2: the image and text shown

vars == <<pc, fetches, img, gray, inverted, bw, resized, stages, raw_text,
          processed_img, clean_text, matches, data, ui, debug>>

NoDebug == [image |-> NoImage, text |-> <<>>]

Init ==
  /\ pc = "load"
  /\ fetches = 0
  /\ img = NoImage
  /\ gray = NoImage
  /\ inverted = NoImage
  /\ bw = NoImage
  /\ resized = NoImage
  /\ stages = <<>>
  /\ raw_text = <<>>
  /\ processed_img = NoImage
  /\ clean_text = <<>>
  /\ matches = <<>>
  /\ data = <<>>
  /\ ui = <<>>
  /\ debug = NoDebug

Msg(kind, text) == [kind |-> kind, text |-> text]

ClosedMsg == Msg("error", <<"Southbound Toll Lanes are Closed">>)

LoadErrorMsg(cause) == Msg("error", <<"Error loading image: ", cause>>)

---------------------------------------------------------------------------
(* Actions                                                                 *)

TruthyAlways(im) == TRUE

\* if img: -- None is false, an image object is true
Truthy(im) == im # NoImage

\* img = load_data(), then "if img:"
load_data ==
  /\ pc = "load"
  /\ fetches' = fetches + 1
  /\ \/ \E f \in Frames :
          /\ img' = f
          /\ ui' = ui
     \/ \E cause \in LoadCauses :
          /\ img' = NoImage
          /\ ui' = Append(ui, LoadErrorMsg(cause))
  /\ pc' = IF Truthy(img') THEN "tabs" ELSE "done"
  /\ UNCHANGED <<gray, inverted, bw, resized, stages, raw_text, processed_img,
                 clean_text, matches, data, debug>>

\* if st.button("Refresh"): st.rerun() -- the script starts over
Refresh ==
  /\ pc = "tabs"
  /\ pc' = "load"
  /\ fetches' = 0
  /\ img' = NoImage
  /\ ui' = <<>>
  /\ UNCHANGED <<gray, inverted, bw, resized, stages, raw_text, processed_img,
                 clean_text, matches, data, debug>>

\* the button was not pressed: enter the spinner and call process_image
EnterSpinner ==
  /\ pc = "tabs"
  /\ pc' = "gray"
  /\ UNCHANGED <<fetches, img, gray, inverted, bw, resized, stages, raw_text,
                 processed_img, clean_text, matches, data, ui, debug>>

Grayscale ==
  /\ pc = "gray"
  /\ gray' = ConvertL(img)
  /\ stages' = Append(stages, "grayscale")
  /\ pc' = "invert"
  /\ UNCHANGED <<fetches, img, inverted, bw, resized, raw_text, processed_img,
                 clean_text, matches, data, ui, debug>>

Invert ==
  /\ pc = "invert"
  /\ inverted' = InvertImage(gray)
  /\ stages' = Append(stages, "invert")
  /\ pc' = "threshold"
  /\ UNCHANGED <<fetches, img, gray, bw, resized, raw_text, processed_img,
                 clean_text, matches, data, ui, debug>>

Threshold ==
  /\ pc = "threshold"
  /\ bw' = Point(inverted)
  /\ stages' = Append(stages, "threshold")
  /\ pc' = "resize"
  /\ UNCHANGED <<fetches, img, gray, inverted, resized, raw_text, processed_img,
                 clean_text, matches, data, ui, debug>>

ResizeStep ==
  /\ pc = "resize"
  /\ resized' = Resize(bw)
  /\ stages' = Append(stages, "resize")
  /\ pc' = "ocr"
  /\ UNCHANGED <<fetches, img, gray, inverted, bw, raw_text, processed_img,
                 clean_text, matches, data, ui, debug>>

\* text = pytesseract.image_to_string(resized, ...); return text, resized
Ocr ==
  /\ pc = "ocr"
  /\ \E text \in OcrTexts : raw_text' = text
  /\ processed_img' = resized
  /\ stages' = Append(stages, "ocr")
  /\ gray' = NoImage
  /\ inverted' = NoImage
  /\ bw' = NoImage
  /\ resized' = NoImage
  /\ pc' = "branch"
  /\ UNCHANGED <<fetches, img, clean_text, matches, data, ui, debug>>

\* the OCR engine raises: the exception leaves the script
OcrRaises ==
  /\ pc = "ocr"
  /\ stages' = Append(stages, "ocr")
  /\ gray' = NoImage
  /\ inverted' = NoImage
  /\ bw' = NoImage
  /\ resized' = NoImage
  /\ ui' = Append(ui, Msg("exception", <<"TesseractError">>))
  /\ pc' = "done"
  /\ UNCHANGED <<fetches, img, raw_text, processed_img, clean_text, matches,
                 data, debug>>

\* with tab2: st.image(processed_img, ...); st.code(raw_text)
DebugView == [image |-> processed_img, text |-> raw_text]

\* if "CLOSED" in raw_text.upper(): st.error(...), then tab2
ClosedBranch ==
  /\ pc = "branch"
  /\ IsClosed(raw_text)
  /\ ui' = Append(ui, ClosedMsg)
  /\ debug' = DebugView
  /\ pc' = "done"
  /\ UNCHANGED <<fetches, img, gray, inverted, bw, resized, stages, raw_text,
                 processed_img, clean_text, matches, data>>

\* what the else branch writes for the rows it built
ReportMsgs(rows) ==
  IF rows # <<>>
  THEN << Msg("success", <<"Found ">> \o NatDigits(Len(rows)) \o <<" rates">>),
          Msg("dataframe", <<>>) >>
  ELSE << Msg("warning", <<"Could not read numbers clearly.">>),
          Msg("info", <<"Check the 'Debug View' tab.">>) >>

\* else: clean, findall, the mapping loop, the report, then tab2
ParseBranch ==
  /\ pc = "branch"
  /\ ~IsClosed(raw_text)
  /\ clean_text' = CleanText(raw_text)
  /\ matches' = FindAll(clean_text')
  /\ \E ups \in [1..Len(SIGN_ORDER) -> BOOLEAN] : data' = BuildData(matches', 1, ups)
  /\ ui' = ui \o ReportMsgs(data')
  /\ debug' = DebugView
  /\ pc' = "done"
  /\ UNCHANGED <<fetches, img, gray, inverted, bw, resized, stages, raw_text,
                 processed_img>>

Next ==
  \/ load_data
  \/ Refresh
  \/ EnterSpinner
  \/ Grayscale
  \/ Invert
  \/ Threshold
  \/ ResizeStep
  \/ Ocr
  \/ OcrRaises
  \/ ClosedBranch
  \/ ParseBranch

Spec == Init /\ [][Next]_vars

---------------------------------------------------------------------------
(* Vocabulary of the properties                                            *)

InUi(m) == \E i \in 1..Len(ui) : ui[i] = m

\* the run reported the closed status
Closed == InUi(ClosedMsg)

\* the run went through one of the two branches after OCR, and tab2
BranchDone == pc = "done" /\ debug # NoDebug

\* the run went through the parsing branch
Parsed == BranchDone /\ ~Closed

MarkerLower == <<"c", "l", "o", "s", "e", "d">>

\* the marker, each letter in either case, starts at position i of text
MarkerAnyCaseAt(text, i) ==
  \A k \in 1..Len(ClosedMarker) :
     text[i + k - 1] \in {ClosedMarker[k], MarkerLower[k]}

HasMarkerAnyCase(text) ==
  \E i \in 1..(Len(text) - Len(ClosedMarker) + 1) : MarkerAnyCaseAt(text, i)

\* the amount a formatted "$d.dd" shows, in hundredths
MoneyVal(s) == ParseFloat(Tail(s)).val

\* the value of the k-th reading, in hundredths
Reading(k) == ParseFloat(matches[k]).val

Readings == [k \in 1..Len(matches) |-> Reading(k)]

Min(a, b) == IF a < b THEN a ELSE b

\* the plausible maximum toll of the specification, $20, in hundredths
PlausibleMax == 20 * 100

RECURSIVE LeadingPlace(_)
\* the place value of the leading digit of n: 1, 10, 100, ...
LeadingPlace(n) == IF n < 10 THEN 1 ELSE 10 * LeadingPlace(n \div 10)

\* v without the leading digit of its integer part, by arithmetic
DropLeadingDigit(v) == v % (LeadingPlace(v \div 100) * 100)

DistOf(name) ==
  (CHOOSE d \in {SIGN_ORDER[i] : i \in 1..Len(SIGN_ORDER)} : d.name = name).dist

Abs(x) == IF x < 0 THEN 0 - x ELSE x

\* digits, one ".", two digits
DigitsDotTwo(s) ==
  /\ Len(s) >= 4
  /\ s[Len(s) - 2] = "."
  /\ \A i \in 1..Len(s) : i # Len(s) - 2 => IsDigit(s[i])

---------------------------------------------------------------------------
(* C1: a text holding "CLOSED" in any letter case, whatever surrounds it,  *)
(* ends the run in the closed status with no rate entry; a text without    *)
(* the marker is never reported closed.                                    *)
C1_ClosureDecides ==
  /\ Closed => HasMarkerAnyCase(raw_text) /\ data = <<>>
  /\ BranchDone /\ HasMarkerAnyCase(raw_text) =>
       /\ Closed
       /\ data = <<>>
       /\ ~ \E i \in 1..Len(ui) : ui[i].kind \in {"success", "dataframe"}

\* a closed run whose text writes the marker in mixed case next to a price
C1_Witness ==
  /\ BranchDone
  /\ Closed
  /\ ~Contains(raw_text, ClosedMarker)
  /\ FindAll(CleanText(raw_text)) # <<>>

(* C2: with n readings and the 3 configured destinations the run yields    *)
(* min(n, 3) entries, the k-th named after the k-th destination and priced *)
(* from the k-th reading; later readings are ignored and no destination    *)
(* repeats.                                                                *)
C2_PositionalMapping ==
  Parsed /\ (\A i \in 1..Len(matches) : ParseFloat(matches[i]).ok) =>
    /\ Len(data) = Min(Len(matches), Len(SIGN_ORDER))
    /\ \A k \in 1..Len(data) :
         /\ data[k].Destination = SIGN_ORDER[k].name
         /\ data[k].Price = FormatMoney(Correct(Reading(k)))
    /\ \A j, k \in 1..Len(data) : j # k => data[j].Destination # data[k].Destination

\* four readings, three entries
C2_Witness ==
  /\ Parsed
  /\ Len(matches) = Len(SIGN_ORDER) + 1
  /\ Len(data) = Len(SIGN_ORDER)
  /\ data[3].Destination = "Hickory Grove"

C3Pieces == << <<"$", "0", ".", "5", "0">>, <<"$", "1", ".", "1", "0">>, <<".", "7", "5">> >>

(* C3: a text made of "$0.50", "$1.10", ".75" in that order yields the     *)
(* readings 0.50, 1.10, 0.75 in that order, the leading-dot price read     *)
(* with a zero put before it.                                              *)
C3_LeadingDotNormalized ==
  Parsed /\ raw_text = Join(C3Pieces, <<"\n">>) => Readings = <<50, 110, 75>>

(* C4: a reading that stays above the plausible maximum after its leading  *)
(* digit is dropped is discarded, so no entry carries a price above the    *)
(* plausible maximum.                                                      *)
C4_NoImplausiblePrice ==
  \A k \in 1..Len(data) : MoneyVal(data[k].Price) <= PlausibleMax

(* C5: a reading above the plausible maximum is reported without the       *)
(* leading digit of its decimal representation; 50.50 is reported $0.50.   *)
C5_DropsLeadingDigit ==
  Parsed =>
    \A k \in 1..Len(data) :
      /\ Reading(k) > PlausibleMax =>
           MoneyVal(data[k].Price) = DropLeadingDigit(Reading(k))
      /\ Reading(k) = 5050 => data[k].Price = <<"$", "0", ".", "5", "0">>

\* the reading 50.50 reported as $0.50
C5_Witness ==
  /\ Parsed
  /\ \E k \in 1..Len(data) :
       /\ matches[k] = <<"5", "0", ".", "5", "0">>
       /\ data[k].Price = <<"$", "0", ".", "5", "0">>

C7_PerMile ==
  /\ \A i \in 1..Len(SIGN_ORDER) : SIGN_ORDER[i].dist > 0
  /\ Parsed =>
       /\ \A k \in 1..Len(data) :
            LET price == MoneyVal(data[k].Price)
                pm    == MoneyVal(data[k].PerMile)
                dist  == DistOf(data[k].Destination)
            IN  /\ pm >= 0
                /\ 2 * Abs(pm * dist - 10 * price) <= dist
       /\ Readings = <<50, 110, 160>> =>
            [k \in 1..3 |-> data[k].PerMile]
              = << <<"$", "0", ".", "0", "8">>,
                   <<"$", "0", ".", "0", "9">>,
                   <<"$", "0", ".", "1", "0">> >>

\* the specification's example has run
C7_Witness ==
  /\ Parsed
  /\ Readings = <<50, 110, 160>>
  /\ Len(data) = 3
  /\ data[3].PerMile = <<"$", "0", ".", "1", "0">>

Text123_45 == <<"1", "2", "3", ".", "4", "5">>

Text1_234 == <<"1", ".", "2", "3", "4">>

(* C8 as stated: every reading has one or two integer digits, a point and  *)
(* two fractional digits; "123.45" yields no reading with its full integer *)
(* part and "1.234" none with a truncated fraction.                        *)
C8_TwoIntegerDigits ==
  Parsed =>
    /\ \A k \in 1..Len(matches) : DigitsDotTwo(matches[k]) /\ Len(matches[k]) <= 5
    /\ raw_text = Text123_45 => matches # <<Text123_45>>
    /\ raw_text = Text1_234 => matches # << <<"1", ".", "2", "3">> >>

(* C8, amended: every reading has one or more integer digits, a point and  *)
(* exactly two fractional digits; the integer part is not limited and the  *)
(* match is not anchored on the right: "123.45" yields 123.45 and "1.234"  *)
(* yields 1.23.                                                            *)
C8_DigitsDotTwo ==
  Parsed =>
    /\ \A k \in 1..Len(matches) : DigitsDotTwo(matches[k])
    /\ raw_text = Text123_45 => matches = <<Text123_45>>
    /\ raw_text = Text1_234 => matches = << <<"1", ".", "2", "3">> >>

\* "123.45" read whole
C8_Witness == Parsed /\ raw_text = Text123_45 /\ matches = <<Text123_45>>

\* the position of stage s in the run's stages, 0 when it has not run
StagePos(s) ==
  IF \E i \in 1..Len(stages) : stages[i] = s
  THEN CHOOSE i \in 1..Len(stages) : stages[i] = s
  ELSE 0

(* C9 as stated: grayscale comes before thresholding and inversion is      *)
(* applied after thresholding, never before it.                            *)
C9_InvertAfterThreshold ==
  /\ StagePos("threshold") > 0 => 0 < StagePos("grayscale")
                                  /\ StagePos("grayscale") < StagePos("threshold")
  /\ StagePos("invert") > 0 => 0 < StagePos("threshold")
                               /\ StagePos("threshold") < StagePos("invert")

StageOrder == <<"grayscale", "invert", "threshold", "resize", "ocr">>

(* C9, amended: the stages run in the fixed order grayscale, inversion,    *)
(* threshold, resize; inversion is applied to the grayscale image, before  *)
(* thresholding; the image handed to OCR is the result of the last stage   *)
(* and measures (width x 2, height x 2).                                   *)
C9_StageOrder ==
  /\ stages = SubSeq(StageOrder, 1, Len(stages))
  /\ inverted # NoImage => inverted.mode = "L"
  /\ bw # NoImage => bw = Point(inverted)
  /\ pc = "ocr" =>
       /\ resized.mode = "1"
       /\ resized.size = <<img.size[1] * 2, img.size[2] * 2>>
  /\ processed_img # NoImage =>
       /\ processed_img.mode = "1"
       /\ processed_img.size = <<img.size[1] * 2, img.size[2] * 2>>

\* OCR has been given the 8 x 6 image made from the 4 x 3 frame
C9_Witness ==
  /\ pc = "branch"
  /\ stages = StageOrder
  /\ img.size = <<4, 3>>
  /\ processed_img.size = <<8, 6>>

(* C10: when the fetch fails the run reports the error, has fetched once,  *)
(* runs neither preprocessing nor OCR and yields neither the closed status *)
(* nor any entry.                                                          *)
C10_FetchFailure ==
  /\ fetches <= 1
  /\ pc # "load" /\ img = NoImage =>
       /\ pc = "done"
       /\ fetches = 1
       /\ \E cause \in LoadCauses : ui = <<LoadErrorMsg(cause)>>
       /\ stages = <<>>
       /\ processed_img = NoImage
       /\ ~Closed
       /\ data = <<>>
       /\ debug = NoDebug

\* a run ended by a non-success HTTP status
C10_Witness ==
  /\ pc = "done"
  /\ img = NoImage
  /\ ui = <<LoadErrorMsg("HTTPError")>>

=============================================================================
